---- MODULE Spec2Model ----
(***************************************************************************)
(* A model of app.py, the email extractor: the garbage classifier          *)
(* (looks_like_garbage), the extractor (extract_emails_from_html), the     *)
(* site crawler (crawl_site) and the handler of the "Extract Emails"       *)
(* button, which fans crawl_site out over a thread pool and merges the     *)
(* results.                                                                *)
(*                                                                         *)
(* Strings are sequences of one-character strings, so that regular         *)
(* expressions, lower(), strip(), split() and the substring tests are      *)
(* computed character by character as Python computes them.                *)
(***************************************************************************)
EXTENDS Integers, Sequences, FiniteSets, TLC

VARIABLES
    \* st.session_state
    results_ready, ss_all_results, ss_unique_emails, ss_total_pages, ss_failed_urls,
    \* widgets and locals of the button handler
    pc, websites, crawl_depth, max_pages, batch_start,
    all_results, unique_emails, total_pages, failed_urls, completed,
    \* one future per submitted crawl_site call, and that call's locals
    fut, crawl, result, fetched, seed_ok,
    \* the argument and the value of one call of a pure function
    html, extracted, email, verdict

vars == <<results_ready, ss_all_results, ss_unique_emails, ss_total_pages, ss_failed_urls,
          pc, websites, crawl_depth, max_pages, batch_start,
          all_results, unique_emails, total_pages, failed_urls, completed,
          fut, crawl, result, fetched, seed_ok,
          html, extracted, email, verdict>>

appVars == <<results_ready, ss_all_results, ss_unique_emails, ss_total_pages, ss_failed_urls,
             pc, websites, crawl_depth, max_pages, batch_start,
             all_results, unique_emails, total_pages, failed_urls, completed,
             fut, crawl, result, fetched, seed_ok>>

pureVars == <<html, extracted, email, verdict>>

-----------------------------------------------------------------------------
(* Python's str operations *)

Range(s) == {s[i] : i \in 1..Len(s)}

Min(S) == CHOOSE x \in S : \A y \in S : x <= y

Max(S) == CHOOSE x \in S : \A y \in S : x >= y

LowerAlpha == <<"a","b","c","d","e","f","g","h","i","j","k","l","m","n","o","p","q","r","s","t","u","v","w","x","y","z">>

UpperAlpha == <<"A","B","C","D","E","F","G","H","I","J","K","L","M","N","O","P","Q","R","S","T","U","V","W","X","Y","Z">>

Digits == Range(<<"0","1","2","3","4","5","6","7","8","9">>)

Letters == Range(LowerAlpha) \cup Range(UpperAlpha)

HexDigits == Digits \cup Range(<<"a","b","c","d","e","f","A","B","C","D","E","F">>)

\* the characters str.strip() removes
Whitespace == {" ", "\n", "\t"}

LowerChar(c) ==
    IF c \in Range(UpperAlpha)
    THEN LowerAlpha[CHOOSE i \in 1..Len(UpperAlpha) : UpperAlpha[i] = c]
    ELSE c

\* str.lower()
lower(s) == [i \in 1..Len(s) |-> LowerChar(s[i])]

\* str.strip()
strip(s) ==
    LET keep == {i \in 1..Len(s) : s[i] \notin Whitespace}
    IN  IF keep = {} THEN <<>> ELSE SubSeq(s, Min(keep), Max(keep))

\* str.lstrip(".")
lstrip_dot(s) ==
    LET keep == {i \in 1..Len(s) : s[i] # "."}
    IN  IF keep = {} THEN <<>> ELSE SubSeq(s, Min(keep), Len(s))

startswith(s, p) == Len(p) <= Len(s) /\ SubSeq(s, 1, Len(p)) = p

endswith(s, p) == Len(p) <= Len(s) /\ SubSeq(s, Len(s) - Len(p) + 1, Len(s)) = p

\* the positions at which sub occurs in s
Occurrences(s, sub) ==
    {i \in 1..(Len(s) - Len(sub) + 1) : SubSeq(s, i, i + Len(sub) - 1) = sub}

\* sub in s
contains(s, sub) == Occurrences(s, sub) # {}

\* s.split(sep, 1): the parts before and after the first sep (one part if there is none)
split1(s, sep) ==
    IF contains(s, sep)
    THEN LET i == Min(Occurrences(s, sep))
         IN  <<SubSeq(s, 1, i - 1), SubSeq(s, i + Len(sep), Len(s))>>
    ELSE <<s>>

-----------------------------------------------------------------------------
(* Configuration *)

LocalChars == Letters \cup Digits \cup {".", "_", "%", "+", "-"}

DomainChars == Letters \cup Digits \cup {".", "-"}

\* the rest of the pattern from an "@" at position at on: @[A-Za-z0-9.-]+\.[A-Za-z]{2,}
\* up to the end of s. The letters after the last dot are the top-level domain,
\* as no dot is a letter.
DomainMatches(s, at) ==
    LET dots == {k \in (at + 1)..Len(s) : s[k] = "."}
        dot  == Max(dots)
    IN  /\ dots # {}
        /\ dot >= at + 2
        /\ Len(s) - dot >= 2
        /\ \A k \in (at + 1)..(dot - 1) : s[k] \in DomainChars
        /\ \A k \in (dot + 1)..Len(s) : s[k] \in Letters

\* EMAIL_REGEX.fullmatch(s) is not None, for
\* [A-Za-z0-9._%+-]+@[A-Za-z0-9.-]+\.[A-Za-z]{2,}$
\* Neither character class holds "@", so the "@" of a match is the only one.
EMAIL_REGEX_fullmatch(s) ==
    LET ats == {k \in 1..Len(s) : s[k] = "@"}
        at  == Min(ats)
    IN  /\ ats # {}
        /\ at >= 2
        /\ \A k \in 1..(at - 1) : s[k] \in LocalChars
        /\ DomainMatches(s, at)

\* EMAIL_REGEX.findall(s). The pattern ends in $, which matches at the end of s
\* or before a newline that ends s, so a match runs to there: its "@" is the
\* last one, and the leftmost match starts where the run of local-part
\* characters before that "@" starts. Nothing is left to scan after it.
EMAIL_REGEX_findall(s) ==
    LET t == IF Len(s) > 0 /\ s[Len(s)] = "\n" THEN SubSeq(s, 1, Len(s) - 1) ELSE s
        ats == {k \in 1..Len(t) : t[k] = "@"}
        at  == Max(ats)
        others == {k \in 1..(at - 1) : t[k] \notin LocalChars}
        start  == IF others = {} THEN 1 ELSE Max(others) + 1
    IN  IF ats # {} /\ start <= at - 1 /\ DomainMatches(t, at)
        THEN {SubSeq(t, start, Len(t))} ELSE {}

EXCLUDED_KEYWORDS == {
    <<"s","u","p","p","o","r","t","@">>, <<"a","c","c","o","u","n","t">>, <<"f","i","l","t","e","r">>, <<"t","e","a","m">>, <<"h","r">>, <<"e","n","q","u","i","r","i","e","s">>,
    <<"p","r","e","s","s","@">>, <<"j","o","b">>, <<"c","a","r","e","e","r">>, <<"s","a","l","e","s">>, <<"i","n","q","u","i","r","y">>, <<"y","o","u","r","n","a","m","e">>,
    <<"j","o","h","n">>, <<"e","x","a","m","p","l","e">>, <<"f","r","a","u","d">>, <<"s","c","a","m">>, <<"p","r","i","v","a","c","y","@">>, <<"n","o","-","r","e","p","l","y","@">>,
    <<"n","o","r","e","p","l","y","@">>, <<"u","n","s","u","b","s","c","r","i","b","e","@">>}

EXCLUDED_DOMAINS_SUBSTR == {
    <<"s","e","n","t","r","y">>, <<"w","i","x","p","r","e","s","s">>, <<"s","e","n","t","r","y",".","w","i","x","p","r","e","s","s",".","c","o","m">>, <<"l","a","t","o","f","o","n","t","s">>, <<"a","d","d","r","e","s","s">>,
    <<"y","o","u","r","d","o","m","a","i","n">>, <<"e","r","r",".","a","b","t","m",".","i","o">>, <<"s","e","n","t","r","y","-","n","e","x","t">>, <<"w","i","x">>, <<"m","y","s","i","t","e">>,
    <<"y","o","u","r","s","i","t","e">>, <<"a","m","a","z","o","n","a","w","s">>, <<"l","o","c","a","l","h","o","s","t">>, <<"i","n","v","a","l","i","d">>, <<"e","x","a","m","p","l","e">>,
    <<"w","e","b","s","i","t","e">>, <<"2","x",".","p","n","g">>}

SKIP_EXTENSIONS == {
    <<".","p","n","g">>, <<".","j","p","g">>, <<".","j","p","e","g">>, <<"e","m","a","i","l",".","c","o","m">>, <<"t","h","e",".","b","e","n","h","a","w","y">>, <<".","g","i","f">>,
    <<".","s","v","g">>, <<".","d","o","m","a","i","n">>, <<"e","x","a","m","p","l","e">>, <<".","w","e","b","p">>, <<".","i","c","o">>, <<".","b","m","p">>, <<".","p","d","f">>}

MAX_CRAWL_WORKERS == 20

BATCH_SIZE == 50

\* HEX_GARBAGE_RE.fullmatch(s) is not None, for ^[0-9a-f]{16,}$ with re.I
HEX_GARBAGE_RE_fullmatch(s) ==
    Len(s) >= 16 /\ \A k \in 1..Len(s) : s[k] \in HexDigits

-----------------------------------------------------------------------------
(* looks_like_garbage *)

\* the classifier without its last test, the excluded keywords
looks_like_garbage_nokw(e0) ==
    IF e0 = <<>> \/ " " \in Range(e0) THEN TRUE
    ELSE LET e == lower(strip(e0))
         IN  IF ~EMAIL_REGEX_fullmatch(e) THEN TRUE
             ELSE LET parts == split1(e, <<"@">>)
                  IN  IF Len(parts) # 2 THEN TRUE
                      ELSE LET local == parts[1]
                               domain == parts[2]
                           IN  \/ \E ext \in SKIP_EXTENSIONS :
                                     endswith(domain, lstrip_dot(ext)) \/ endswith(domain, ext)
                               \/ HEX_GARBAGE_RE_fullmatch(local)
                               \/ \E sub \in EXCLUDED_DOMAINS_SUBSTR : contains(domain, sub)

looks_like_garbage(e0) ==
    IF e0 = <<>> \/ " " \in Range(e0) THEN TRUE
    ELSE LET e == lower(strip(e0))
         IN  IF ~EMAIL_REGEX_fullmatch(e) THEN TRUE
             ELSE LET parts == split1(e, <<"@">>)
                  IN  IF Len(parts) # 2 THEN TRUE
                      ELSE LET local == parts[1]
                               domain == parts[2]
                           IN  \/ \E ext \in SKIP_EXTENSIONS :
                                     endswith(domain, lstrip_dot(ext)) \/ endswith(domain, ext)
                               \/ HEX_GARBAGE_RE_fullmatch(local)
                               \/ \E sub \in EXCLUDED_DOMAINS_SUBSTR : contains(domain, sub)
                               \/ \E kw \in EXCLUDED_KEYWORDS : contains(e, kw)

-----------------------------------------------------------------------------
(* An HTML page is the sequence of its nodes, as BeautifulSoup(html,         *)
(* "html.parser") hands them out; Serialize gives the text of the page.      *)
(*   [tag |-> "a", href, text]  [tag |-> "p", text]  [tag |-> "text", text]  *)
(*   [tag |-> "form", action]   [tag |-> "input", value, placeholder]        *)
(*   [tag |-> "meta", content]  [tag |-> "script", text]                     *)
(*   [tag |-> "comment", text]                                               *)

SerializeNode(n) ==
    CASE n.tag = "a" -> <<"<","a"," ","h","r","e","f","=","\"">> \o n.href \o <<"\"",">">> \o n.text \o <<"<","/","a",">">>
      [] n.tag = "p" -> <<"<","p",">">> \o n.text \o <<"<","/","p",">">>
      [] n.tag = "text" -> n.text
      [] n.tag = "form" -> <<"<","f","o","r","m"," ","a","c","t","i","o","n","=","\"">> \o n.action \o <<"\"",">","<","/","f","o","r","m",">">>
      [] n.tag = "input" -> <<"<","i","n","p","u","t"," ","v","a","l","u","e","=","\"">> \o n.value \o <<"\""," ","p","l","a","c","e","h","o","l","d","e","r","=","\"">>
                                \o n.placeholder \o <<"\"",">">>
      [] n.tag = "meta" -> <<"<","m","e","t","a"," ","c","o","n","t","e","n","t","=","\"">> \o n.content \o <<"\"",">">>
      [] n.tag = "script" -> <<"<","s","c","r","i","p","t",">">> \o n.text \o <<"<","/","s","c","r","i","p","t",">">>
      [] n.tag = "comment" -> <<"<","!","-","-">> \o n.text \o <<"-","-",">">>

RECURSIVE Serialize(_)
Serialize(doc) ==
    IF doc = <<>> THEN <<>> ELSE SerializeNode(Head(doc)) \o Serialize(Tail(doc))

\* soup.find_all(tag), as the positions of the nodes in the page
FindAll(doc, tag) == {i \in 1..Len(doc) : doc[i].tag = tag}

\* the strings of the page (NavigableString nodes: text, script and comment
\* bodies), which soup.find_all(string=...) enumerates
Strings(doc) ==
    {doc[i].text : i \in {j \in 1..Len(doc) :
        doc[j].tag \in {"a", "p", "text", "script", "comment"} /\ doc[j].text # <<>>}}

LowerAll(set) == {lower(m) : m \in set}

FindallLower(s) == LowerAll(EMAIL_REGEX_findall(s))

\* an anchor whose href is a mailto: link
IsMailto(n) == startswith(lower(n.href), <<"m","a","i","l","t","o",":">>)

\* href.split("mailto:", 1)[1] raises IndexError when "mailto:" is not in href as
\* written (the test before it lowercases, the split does not)
MailtoRaises(n) == IsMailto(n) /\ Len(split1(n.href, <<"m","a","i","l","t","o",":">>)) < 2

MailtoEmail(n) ==
    lower(strip(split1(split1(n.href, <<"m","a","i","l","t","o",":">>)[2], <<"?">>)[1]))

\* extract_emails_from_html: the whole-document scan, then the methods on the
\* parsed page; an exception in them keeps what was found before it
extract_emails_from_html(doc) ==
    LET anchors == FindAll(doc, "a")
        raising == {i \in anchors : MailtoRaises(doc[i])}
        upto    == IF raising = {} THEN Len(doc) ELSE Min(raising) - 1
        scan    == FindallLower(Serialize(doc))
        mailto  == {MailtoEmail(doc[i]) :
                       i \in {j \in anchors : j <= upto /\ IsMailto(doc[j])}} \ {<<>>}
        forms   == UNION {FindallLower(doc[i].action) : i \in FindAll(doc, "form")}
        inputs  == UNION {FindallLower(doc[i].value) \cup FindallLower(doc[i].placeholder) :
                       i \in FindAll(doc, "input")}
        metas   == UNION {FindallLower(doc[i].content) : i \in FindAll(doc, "meta")}
        scripts == UNION {FindallLower(doc[i].text) : i \in FindAll(doc, "script")}
        strings == UNION {FindallLower(s) : s \in Strings(doc)}
    IN  IF doc = <<>> THEN {}
        ELSE IF raising # {} THEN scan \cup mailto
        ELSE scan \cup mailto \cup forms \cup inputs \cup metas \cup scripts \cup strings

-----------------------------------------------------------------------------
(* urllib.parse, for URLs without parameters and without dot segments *)

SchemeChars == Letters \cup Digits \cup {"+", "-", "."}

\* the first position of a character of set in s from position from on, or Len(s) + 1
FirstOf(s, set, from) ==
    LET hits == {i \in from..Len(s) : s[i] \in set}
    IN  IF hits = {} THEN Len(s) + 1 ELSE Min(hits)

\* the scheme of a URL, lowercased, and what follows its colon
SplitScheme(url) ==
    LET colon == FirstOf(url, {":"}, 1)
    IN  IF /\ colon <= Len(url) /\ colon > 1
           /\ url[1] \in Letters
           /\ \A k \in 1..(colon - 1) : url[k] \in SchemeChars
        THEN <<lower(SubSeq(url, 1, colon - 1)), SubSeq(url, colon + 1, Len(url))>>
        ELSE << <<>>, url >>

\* the netloc after "//", up to the first of / ? #, and what follows it
SplitNetloc(rest) ==
    LET delim == FirstOf(rest, {"/", "?", "#"}, 3)
    IN  IF startswith(rest, <<"/","/">>)
        THEN <<SubSeq(rest, 3, delim - 1), SubSeq(rest, delim, Len(rest))>>
        ELSE << <<>>, rest >>

\* s.split(sep, 1), with an empty second part when sep is not in s
SplitOff(s, sep) ==
    LET parts == split1(s, sep)
    IN  IF Len(parts) = 2 THEN parts ELSE << s, <<>> >>

ParseQuery(scheme, netloc, pq, fragment) ==
    [scheme |-> scheme, netloc |-> netloc, path |-> pq[1], query |-> pq[2],
     fragment |-> fragment]

ParseFragment(scheme, netloc, pf) ==
    ParseQuery(scheme, netloc, SplitOff(pf[1], <<"?">>), pf[2])

ParseNetloc(scheme, nr) == ParseFragment(scheme, nr[1], SplitOff(nr[2], <<"#">>))

ParseScheme(sr) == ParseNetloc(sr[1], SplitNetloc(sr[2]))

\* urlparse(url): scheme, netloc, path, query, fragment
urlparse(url) == ParseScheme(SplitScheme(url))

NetlocSchemes == {<<"h","t","t","p">>, <<"h","t","t","p","s">>, <<"f","t","p">>}

\* scheme, netloc and path put together
UnparseHead(p) ==
    IF p.netloc # <<>> \/ (p.scheme \in NetlocSchemes /\ ~startswith(p.path, <<"/","/">>))
    THEN (IF p.scheme # <<>> THEN p.scheme \o <<":">> ELSE <<>>) \o <<"/","/">> \o p.netloc
         \o (IF p.path # <<>> /\ p.path[1] # "/" THEN <<"/">> ELSE <<>>) \o p.path
    ELSE (IF p.scheme # <<>> THEN p.scheme \o <<":">> ELSE <<>>) \o p.path

\* ParseResult.geturl()
geturl(p) ==
    UnparseHead(p) \o (IF p.query # <<>> THEN <<"?">> \o p.query ELSE <<>>)
                   \o (IF p.fragment # <<>> THEN <<"#">> \o p.fragment ELSE <<>>)

\* the directory of a path: up to its last slash
Directory(path) ==
    LET slashes == {i \in 1..Len(path) : path[i] = "/"}
    IN  IF slashes = {} THEN <<"/">> ELSE SubSeq(path, 1, Max(slashes))

\* urljoin for a base b and a reference u, both parsed, u with b's scheme
JoinParsed(b, u) ==
    IF u.netloc # <<>> THEN geturl(u)
    ELSE IF u.path = <<>>
    THEN geturl([u EXCEPT !.netloc = b.netloc, !.path = b.path,
                          !.query = IF u.query = <<>> THEN b.query ELSE u.query])
    ELSE IF startswith(u.path, <<"/">>) THEN geturl([u EXCEPT !.netloc = b.netloc])
    ELSE geturl([u EXCEPT !.netloc = b.netloc, !.path = Directory(b.path) \o u.path])

JoinScheme(url, b, u) ==
    IF u.scheme # <<>> /\ (u.scheme # b.scheme \/ u.scheme \notin NetlocSchemes) THEN url
    ELSE IF u.scheme = <<>> /\ b.scheme \notin NetlocSchemes THEN url
    ELSE JoinParsed(b, [u EXCEPT !.scheme = b.scheme])

\* urljoin(base, url)
urljoin(base, url) ==
    IF base = <<>> THEN url
    ELSE IF url = <<>> THEN base
    ELSE JoinScheme(url, urlparse(base), urlparse(url))

\* normalize_url(url): None is <<>>
normalize_url(line) ==
    LET url == strip(line)
    IN  IF url = <<>> THEN <<>>
        ELSE IF ~(startswith(lower(url), <<"h","t","t","p",":","/","/">>) \/ startswith(lower(url), <<"h","t","t","p","s",":","/","/">>))
             THEN <<"h","t","t","p","s",":","/","/">> \o url
        ELSE url

-----------------------------------------------------------------------------
(* sorted(): Python orders strings by code point *)

CodeOrder ==
    <<"\t","\n"," ","!","\"","%","+","-",".","/","0","1","2","3","4","5","6","7","8","9",":","<","=",">","?","@","A","B","C","D","E","F","G","H","I","J","K","L","M","N","O","P","Q","R","S","T","U","V","W","X","Y","Z","_","a","b","c","d","e","f","g","h","i","j","k","l","m","n","o","p","q","r","s","t","u","v","w","x","y","z">>

Ord(c) == CHOOSE i \in 1..Len(CodeOrder) : CodeOrder[i] = c

RECURSIVE StrLess(_, _)
StrLess(a, b) ==
    IF b = <<>> THEN FALSE
    ELSE IF a = <<>> THEN TRUE
    ELSE IF a[1] = b[1] THEN StrLess(Tail(a), Tail(b))
    ELSE Ord(a[1]) < Ord(b[1])

RECURSIVE sorted(_)
sorted(set) ==
    IF set = {} THEN <<>>
    ELSE LET m == CHOOSE x \in set : \A y \in set \ {x} : StrLess(x, y)
         IN  <<m>> \o sorted(set \ {m})

-----------------------------------------------------------------------------
(* The web the crawler sees: what session.get(url).text parses to *)

HostA == <<"a",".","c","o">>

HostB == <<"b",".","i","o">>

HostC == <<"c",".","d","e">>

Anchor(href, text) == [tag |-> "a", href |-> href, text |-> text]

Para(text) == [tag |-> "p", text |-> text]

PageA_root == <<
    Anchor(<<"/">>, <<"H","o","m","e">>),
    Anchor(<<"/","p","1">>, <<"A","b","o","u","t">>),
    Anchor(<<"/","p","2","#","w","h","o">>, <<"S","t","a","f","f">>),
    Anchor(<<"h","t","t","p","s",":","/","/","b",".","i","o","/">>, <<"P","a","r","t","n","e","r">>),
    Anchor(<<"f","t","p",":","/","/","a",".","c","o","/","f">>, <<"F","i","l","e","s">>),
    Anchor(<<"#","t","o","p">>, <<"T","o","p">>),
    Anchor(<<"m","a","i","l","t","o",":","j","o","e","@","a","c","m","e",".","c","o","m","?","s","u","b","j","e","c","t","=","h","i">>, <<"C","o","n","t","a","c","t">>),
    Para(<<"R","e","a","c","h"," ","s","u","e","@","a","c","m","e",".","c","o","m">>) >>

PageA_p1 == <<
    Anchor(<<"/">>, <<"H","o","m","e">>),
    Anchor(<<"/","p","2">>, <<"S","t","a","f","f">>),
    Anchor(<<"/","p","3">>, <<"M","o","r","e">>),
    Para(<<"n","o","r","e","p","l","y","@","c","o","m","p","a","n","y",".","c","o","m">>) >>

PageA_p2 == <<
    Anchor(<<"/","p","1","#","x">>, <<"A","b","o","u","t">>),
    Anchor(<<"p","3">>, <<"M","o","r","e">>),
    Para(<<"A","s","k"," ","j","a","n","e",".","d","o","e","@","a","c","m","e",".","c","o">>) >>

PageA_p3 == <<
    Anchor(<<"h","t","t","p","s",":","/","/","a",".","c","o","/">>, <<"H","o","m","e">>),
    Para(<<"M","a","i","l"," ","s","u","e","@","a","c","m","e",".","c","o","m"," ","t","o","d","a","y">>) >>

PageB_root == <<
    Anchor(<<"/","q">>, <<"C","o","n","t","a","c","t">>),
    Anchor(<<"h","t","t","p","s",":","/","/","a",".","c","o","/","p","1">>, <<"F","r","i","e","n","d","s">>),
    Para(<<"n","o","r","e","p","l","y","@","c","o","m","p","a","n","y",".","c","o","m">>) >>

PageB_q == <<
    Anchor(<<"/">>, <<"H","o","m","e">>),
    Para(<<"W","r","i","t","e"," ","s","u","e","@","a","c","m","e",".","c","o","m">>) >>

PageC_root == << Para(<<"A","s","k"," ","j","a","n","e",".","d","o","e","@","a","c","m","e",".","c","o">>) >>

\* the page served for a URL (the fragment is not sent); any other URL gets an
\* empty body
Web(url) ==
    LET p == urlparse(url)
    IN  CASE p.netloc = HostA /\ p.path = <<"/">>   -> PageA_root
          [] p.netloc = HostA /\ p.path = <<"/","p","1">> -> PageA_p1
          [] p.netloc = HostA /\ p.path = <<"/","p","2">> -> PageA_p2
          [] p.netloc = HostA /\ p.path = <<"/","p","3">> -> PageA_p3
          [] p.netloc = HostB /\ p.path = <<"/">>   -> PageB_root
          [] p.netloc = HostB /\ p.path = <<"/","q">>  -> PageB_q
          [] p.netloc = HostC /\ p.path \in {<<>>, <<"/">>} -> PageC_root
          [] OTHER -> <<>>

-----------------------------------------------------------------------------
(* Bounds of the model *)

\* the crawl depths tried are 0..MaxDepth (the slider offers 0..3)
MaxDepth == 2

\* the page budgets tried are 1..MaxPages (the input offers 1..200)
MaxPages == 3

\* a run's page budget over all its sites, len(websites) * max_pages, is at most MaxWork
MaxWork == 4

\* the pages built for extract_emails_from_html have 1..MaxNodes nodes
MaxNodes == 2

-----------------------------------------------------------------------------
(* crawl_site *)

NoMessage == [msg |-> "None", page |-> 0]

NoResult == [url |-> <<>>, status |-> "none", emails |-> {}, pages_crawled |-> 0,
             error_message |-> NoMessage]

NoCrawl == [to_visit |-> <<>>, seen |-> {}, found |-> {}, pages |-> 0]

\* what session.get can do: return a response, or raise
FetchOutcomes == {"ok", "Timeout", "ConnectionError", "Error"}

\* while to_visit and pages < max_pages
LoopCondition_off_by_one(c, n) == c.to_visit # <<>> /\ c.pages <= n

LoopCondition(c, n) == c.to_visit # <<>> /\ c.pages < n

\* if depth < crawl_depth
WithinDepth_inclusive(depth, d) == depth <= d

WithinDepth(depth, d) == depth < d

\* the tests on a joined link: scheme http or https, and the seed's netloc
SameDomain_any_host(p, base_domain) == p.scheme \in {<<"h","t","t","p">>, <<"h","t","t","p","s">>}

SameDomain(p, base_domain) ==
    p.scheme \in {<<"h","t","t","p">>, <<"h","t","t","p","s">>} /\ p.netloc = base_domain

\* href.startswith(("javascript:", "mailto:", "tel:", "#"))
SkippedHref(href) ==
    \E pre \in {<<"j","a","v","a","s","c","r","i","p","t",":">>, <<"m","a","i","l","t","o",":">>, <<"t","e","l",":">>, <<"#">>} : startswith(href, pre)

\* the hrefs of soup.find_all("a", href=True), in document order
RECURSIVE Hrefs(_)
Hrefs(doc) ==
    IF doc = <<>> THEN <<>>
    ELSE IF Head(doc).tag = "a" THEN <<Head(doc).href>> \o Hrefs(Tail(doc))
    ELSE Hrefs(Tail(doc))

\* a joined link put at the front of the queue instead of its end
AddLink_front(p, depth, base_domain, st) ==
    LET norm == geturl([p EXCEPT !.fragment = <<>>])
    IN  IF ~SameDomain(p, base_domain) \/ norm \in st.seen THEN st
        ELSE [seen |-> st.seen \cup {norm}, to_visit |-> << <<norm, depth + 1>> >> \o st.to_visit]

\* a joined link that is not skipped: enqueued unless off the site or seen
AddLink(p, depth, base_domain, st) ==
    LET norm == geturl([p EXCEPT !.fragment = <<>>])
    IN  IF ~SameDomain(p, base_domain) \/ norm \in st.seen THEN st
        ELSE [seen |-> st.seen \cup {norm}, to_visit |-> Append(st.to_visit, <<norm, depth + 1>>)]

\* the body of the loop over the links, for one href
FollowLink(href, current, depth, base_domain, st) ==
    IF SkippedHref(href) THEN st
    ELSE AddLink(urlparse(urljoin(current, href)), depth, base_domain, st)

\* the loop over the links of one page: the seen set and the queue after it
RECURSIVE EnqueueLinks(_, _, _, _, _)
EnqueueLinks(hrefs, current, depth, base_domain, st) ==
    IF hrefs = <<>> THEN st
    ELSE EnqueueLinks(Tail(hrefs), current, depth, base_domain,
                      FollowLink(strip(Head(hrefs)), current, depth, base_domain, st))

Running == {t \in DOMAIN fut : fut[t] = "running"}

\* a worker thread picks the call up: the lines before the loop
TaskStart(t) ==
    /\ fut[t] = "pending"
    /\ Cardinality(Running) < MAX_CRAWL_WORKERS
    /\ LET url == websites[t]
           base_domain == urlparse(url).netloc
       IN  IF base_domain = <<>>
           THEN /\ result' = [result EXCEPT ![t] =
                       [NoResult EXCEPT !.url = url, !.status = "error",
                                        !.error_message = [msg |-> "Invalid URL format", page |-> 0]]]
                /\ fut' = [fut EXCEPT ![t] = "returned"]
                /\ UNCHANGED crawl
           ELSE /\ result' = [result EXCEPT ![t] = [NoResult EXCEPT !.url = url, !.status = "error"]]
                /\ crawl' = [crawl EXCEPT ![t] =
                       [to_visit |-> << <<url, 0>> >>, seen |-> {url}, found |-> {}, pages |-> 0]]
                /\ fut' = [fut EXCEPT ![t] = "running"]
    /\ UNCHANGED <<results_ready, ss_all_results, ss_unique_emails, ss_total_pages,
                   ss_failed_urls, pc, websites, crawl_depth, max_pages, batch_start,
                   all_results, unique_emails, total_pages, failed_urls, completed,
                   fetched, seed_ok, pureVars>>

\* one iteration of the while loop: pop, fetch, extract, enqueue the links
CrawlStep(t, outcome) ==
    /\ fut[t] = "running"
    /\ LoopCondition(crawl[t], max_pages)
    /\ LET c       == crawl[t]
           current == Head(c.to_visit)[1]
           depth   == Head(c.to_visit)[2]
           pages   == c.pages + 1
           doc     == Web(current)
           links   == IF WithinDepth(depth, crawl_depth)
                      THEN EnqueueLinks(Hrefs(doc), current, depth, urlparse(websites[t]).netloc,
                                        [seen |-> c.seen, to_visit |-> Tail(c.to_visit)])
                      ELSE [seen |-> c.seen, to_visit |-> Tail(c.to_visit)]
       IN  /\ fetched' = [fetched EXCEPT ![t] = Append(@, <<current, depth>>)]
           /\ seed_ok' = [seed_ok EXCEPT ![t] =
                              IF c.pages = 0 THEN (IF outcome = "ok" THEN "ok" ELSE "fail") ELSE @]
           /\ IF outcome = "ok"
              THEN /\ crawl' = [crawl EXCEPT ![t] =
                          [to_visit |-> links.to_visit, seen |-> links.seen,
                           found |-> c.found \cup extract_emails_from_html(doc), pages |-> pages]]
                   /\ UNCHANGED result
              ELSE /\ crawl' = [crawl EXCEPT ![t] =
                          [c EXCEPT !.to_visit = Tail(c.to_visit), !.pages = pages]]
                   /\ result' = [result EXCEPT ![t].error_message = [msg |-> outcome, page |-> pages]]
    /\ UNCHANGED <<results_ready, ss_all_results, ss_unique_emails, ss_total_pages,
                   ss_failed_urls, pc, websites, crawl_depth, max_pages, batch_start,
                   all_results, unique_emails, total_pages, failed_urls, completed,
                   fut, pureVars>>

\* the lines after the loop, and the return
CrawlReturn(t) ==
    /\ fut[t] = "running"
    /\ ~LoopCondition(crawl[t], max_pages)
    /\ LET c == crawl[t]
       IN  result' = [result EXCEPT ![t] =
               [@ EXCEPT !.status = IF c.found # {} THEN "success" ELSE "no_emails",
                         !.emails = c.found,
                         !.pages_crawled = c.pages,
                         !.error_message =
                             IF c.found = {} /\ @ = NoMessage
                             THEN [msg |-> "No emails found", page |-> 0] ELSE @]]
    /\ fut' = [fut EXCEPT ![t] = "returned"]
    /\ crawl' = [crawl EXCEPT ![t] = NoCrawl]
    /\ fetched' = [fetched EXCEPT ![t] = <<>>]
    /\ UNCHANGED <<results_ready, ss_all_results, ss_unique_emails, ss_total_pages,
                   ss_failed_urls, pc, websites, crawl_depth, max_pages, batch_start,
                   all_results, unique_emails, total_pages, failed_urls, completed,
                   seed_ok, pureVars>>

\* an exception that leaves crawl_site: the future holds it instead of a result
TaskFault(t) ==
    /\ fut[t] = "running"
    /\ fut' = [fut EXCEPT ![t] = "raised"]
    /\ crawl' = [crawl EXCEPT ![t] = NoCrawl]
    /\ result' = [result EXCEPT ![t] = NoResult]
    /\ fetched' = [fetched EXCEPT ![t] = <<>>]
    /\ UNCHANGED <<results_ready, ss_all_results, ss_unique_emails, ss_total_pages,
                   ss_failed_urls, pc, websites, crawl_depth, max_pages, batch_start,
                   all_results, unique_emails, total_pages, failed_urls, completed,
                   seed_ok, pureVars>>

-----------------------------------------------------------------------------
(* The handler of the "Extract Emails" button *)

EmptyMap == [x \in {} |-> 0]

\* a store that drops the other keys
SetItem_clobber(d, k, v) == [x \in {k} |-> v]

\* d[k] = v
SetItem(d, k, v) == [x \in DOMAIN d \cup {k} |-> IF x = k THEN v ELSE d[x]]

Tasks == 1..Len(websites)

NoTasks(n) == [t \in 1..n |-> "none"]

\* the lines typed into the text area
Lines == {<<"a",".","c","o","/">>, <<"h","t","t","p","s",":","/","/","a",".","c","o","/","#","t","o","p">>, <<"b",".","i","o","/">>, <<"/","x">>, <<" "," ">>}

UrlInputs == {
    << <<"a",".","c","o","/">> >>,
    << <<"h","t","t","p","s",":","/","/","a",".","c","o","/","#","t","o","p">> >>,
    << <<" "," ">>, <<"b",".","i","o","/">>, <<"/","x">> >>,
    << <<"b",".","i","o","/">>, <<"b",".","i","o","/">> >>,
    << <<"b",".","i","o","/">>, <<"a",".","c","o","/">>, <<"c",".","d","e">> >>,
    << <<" "," ">> >> }

\* websites: the normalized lines that are not empty
RECURSIVE ParseUrls(_)
ParseUrls(lines) ==
    IF lines = <<>> THEN <<>>
    ELSE LET n == normalize_url(Head(lines))
         IN  IF n # <<>> THEN <<n>> \o ParseUrls(Tail(lines)) ELSE ParseUrls(Tail(lines))

\* what the user enters before pressing the button: the lines, the crawl depth
\* and the page budget
RunInputs ==
    {in \in UrlInputs \X (0..MaxDepth) \X (1..MaxPages) :
        Len(ParseUrls(in[1])) * in[3] <= MaxWork}

\* the button is pressed: reset, parse the URLs, set up the run
ExtractButton(urls_input, depth, budget) ==
    /\ pc = "idle"
    /\ LET ws == ParseUrls(urls_input)
       IN  /\ websites' = ws
           /\ pc' = IF ws = <<>> THEN "idle" ELSE "batch"
           /\ fut' = NoTasks(Len(ws))
           /\ crawl' = [t \in 1..Len(ws) |-> NoCrawl]
           /\ result' = [t \in 1..Len(ws) |-> NoResult]
           /\ fetched' = [t \in 1..Len(ws) |-> <<>>]
           /\ seed_ok' = [t \in 1..Len(ws) |-> "none"]
    /\ crawl_depth' = depth
    /\ max_pages' = budget
    /\ results_ready' = FALSE
    /\ ss_all_results' = EmptyMap
    /\ ss_unique_emails' = {}
    /\ ss_total_pages' = 0
    /\ ss_failed_urls' = <<>>
    /\ all_results' = EmptyMap
    /\ unique_emails' = {}
    /\ total_pages' = 0
    /\ failed_urls' = <<>>
    /\ completed' = 0
    /\ batch_start' = 0
    /\ UNCHANGED pureVars

\* "Clear & Start Fresh"
ClearButton ==
    /\ pc = "idle"
    /\ results_ready
    /\ results_ready' = FALSE
    /\ ss_all_results' = EmptyMap
    /\ ss_unique_emails' = {}
    /\ ss_total_pages' = 0
    /\ ss_failed_urls' = <<>>
    /\ UNCHANGED <<pc, websites, crawl_depth, max_pages, batch_start,
                   all_results, unique_emails, total_pages, failed_urls, completed,
                   fut, crawl, result, fetched, seed_ok, pureVars>>

BatchOf(start) == {t \in Tasks : start < t /\ t <= start + BATCH_SIZE}

\* the head of the batch loop: submit crawl_site for every URL of the batch
StartBatch ==
    /\ pc = "batch"
    /\ batch_start < Len(websites)
    /\ fut' = [t \in Tasks |-> IF t \in BatchOf(batch_start) THEN "pending" ELSE fut[t]]
    /\ pc' = "collect"
    /\ UNCHANGED <<results_ready, ss_all_results, ss_unique_emails, ss_total_pages,
                   ss_failed_urls, websites, crawl_depth, max_pages, batch_start,
                   all_results, unique_emails, total_pages, failed_urls, completed,
                   crawl, result, fetched, seed_ok, pureVars>>

\* the entry stored for a call that returned
ResultEntry(r) ==
    LET raw_emails == r.emails
        cleaned0   == {e \in raw_emails : ~looks_like_garbage(e)}
        cleaned    == {e \in cleaned0 : ~\E k \in EXCLUDED_KEYWORDS : contains(e, k)}
    IN  [status |-> r.status, raw |-> sorted(raw_emails), clean |-> sorted(cleaned),
         pages |-> r.pages_crawled, error |-> r.error_message]

\* the entry stored when fut.result() raises
FaultEntry_none == [status |-> "success", raw |-> <<>>, clean |-> <<>>, pages |-> 0,
                    error |-> NoMessage]

FaultEntry == [status |-> "error", raw |-> <<>>, clean |-> <<>>, pages |-> 0,
               error |-> [msg |-> "Fault", page |-> 0]]

\* one turn of the as_completed loop, for a future that is done (the future's
\* result is not read again)
Merge(t) ==
    /\ pc = "collect"
    /\ fut[t] \in {"returned", "raised"}
    /\ LET url == websites[t]
       IN  IF fut[t] = "returned"
           THEN LET entry == ResultEntry(result[t])
                IN  /\ all_results' = SetItem(all_results, url, entry)
                    /\ unique_emails' = unique_emails \cup Range(entry.clean)
                    /\ total_pages' = total_pages + result[t].pages_crawled
                    /\ failed_urls' = IF result[t].status = "error"
                                      THEN Append(failed_urls, <<url, result[t].error_message>>)
                                      ELSE failed_urls
           ELSE /\ all_results' = SetItem(all_results, url, FaultEntry)
                /\ failed_urls' = Append(failed_urls, <<url, FaultEntry.error>>)
                /\ UNCHANGED <<unique_emails, total_pages>>
    /\ fut' = [fut EXCEPT ![t] = "merged"]
    /\ result' = [result EXCEPT ![t] = NoResult]
    /\ completed' = completed + 1
    /\ UNCHANGED <<results_ready, ss_all_results, ss_unique_emails, ss_total_pages,
                   ss_failed_urls, pc, websites, crawl_depth, max_pages, batch_start,
                   crawl, fetched, seed_ok, pureVars>>

\* as_completed is exhausted and the executor is left: on to the next batch
EndBatch ==
    /\ pc = "collect"
    /\ \A t \in BatchOf(batch_start) : fut[t] = "merged"
    /\ batch_start' = batch_start + BATCH_SIZE
    /\ pc' = "batch"
    /\ UNCHANGED <<results_ready, ss_all_results, ss_unique_emails, ss_total_pages,
                   ss_failed_urls, websites, crawl_depth, max_pages,
                   all_results, unique_emails, total_pages, failed_urls, completed,
                   fut, crawl, result, fetched, seed_ok, pureVars>>

\* after the last batch: save to the session
Finish ==
    /\ pc = "batch"
    /\ batch_start >= Len(websites)
    /\ ss_all_results' = all_results
    /\ ss_unique_emails' = unique_emails
    /\ ss_total_pages' = total_pages
    /\ ss_failed_urls' = failed_urls
    /\ results_ready' = TRUE
    /\ pc' = "idle"
    /\ UNCHANGED <<websites, crawl_depth, max_pages, batch_start,
                   all_results, unique_emails, total_pages, failed_urls, completed,
                   fut, crawl, result, fetched, seed_ok, pureVars>>

Init ==
    /\ results_ready = FALSE
    /\ ss_all_results = EmptyMap
    /\ ss_unique_emails = {}
    /\ ss_total_pages = 0
    /\ ss_failed_urls = <<>>
    /\ pc = "idle"
    /\ websites = <<>>
    /\ crawl_depth = 2
    /\ max_pages = 50
    /\ batch_start = 0
    /\ all_results = EmptyMap
    /\ unique_emails = {}
    /\ total_pages = 0
    /\ failed_urls = <<>>
    /\ completed = 0
    /\ fut = <<>>
    /\ crawl = <<>>
    /\ result = <<>>
    /\ fetched = <<>>
    /\ seed_ok = <<>>
    /\ html = <<>>
    /\ extracted = <<>>
    /\ email = <<>>
    /\ verdict = "none"

Next ==
    \/ \E in \in RunInputs : ExtractButton(in[1], in[2], in[3])
    \/ ClearButton
    \/ StartBatch
    \/ \E t \in Tasks : TaskStart(t)
    \/ \E t \in Tasks, o \in FetchOutcomes : CrawlStep(t, o)
    \/ \E t \in Tasks : CrawlReturn(t)
    \/ \E t \in Tasks : TaskFault(t)
    \/ \E t \in Tasks : Merge(t)
    \/ EndBatch
    \/ Finish

Spec == Init /\ [][Next]_vars

\* the steps the program takes by itself, as opposed to the user's clicks and
\* to faults: threads are scheduled, and session.get returns or raises within
\* its timeout
RunStep ==
    \/ StartBatch
    \/ \E t \in Tasks : TaskStart(t) \/ CrawlReturn(t) \/ Merge(t)
    \/ \E t \in Tasks, o \in FetchOutcomes : CrawlStep(t, o)
    \/ EndBatch
    \/ Finish

\* ENABLED <<RunStep>>_vars, as the guards of the actions of RunStep: every one of
\* these steps changes fut, crawl or pc
Runnable ==
    \/ pc = "batch" /\ batch_start < Len(websites)
    \/ \E t \in Tasks : fut[t] = "pending" /\ Cardinality(Running) < MAX_CRAWL_WORKERS
    \/ \E t \in Tasks : fut[t] = "running"
    \/ \E t \in Tasks : pc = "collect" /\ fut[t] \in {"returned", "raised"}
    \/ pc = "collect" /\ \A t \in BatchOf(batch_start) : fut[t] = "merged"
    \/ pc = "batch" /\ batch_start >= Len(websites)

\* weak fairness of RunStep, WF_vars(RunStep), with its ENABLED written out: the
\* script and the pool's threads keep running while they have a step to take
FairRunStep == []<>(~Runnable) \/ []<><<RunStep>>_vars

LiveSpec == Spec /\ FairRunStep

-----------------------------------------------------------------------------
(* One call of looks_like_garbage, on an address the extractor can hand it:   *)
(* lowercased, with no whitespace at its ends                                 *)

LocalParts == {
    <<"j","a","n","e",".","d","o","e">>, <<"n","o","r","e","p","l","y">>, <<"p","e","r","s","o","n">>, <<"j","o","h","n",".","s","m","i","t","h">>, <<"a","1","b","2","c","3","d","4","e","5","f","6","a","7","b">>,
    <<"a","1","b","2","c","3","d","4","e","5","f","6","a","7","b","8">>, <<"a","1","b","2","c","3","d","4","e","5","f","6","a","7","b","8","c","9">>, <<"a","1","b","2","c","3","d","4","e","5","f","6","g","7","h","8">>, <<"s","u","e">>, <<>>}

DomainParts == {
    <<"a","c","m","e",".","c","o">>, <<"2","x",".","p","n","g">>, <<"s","e","n","t","r","y","d","a","s","h",".","i","o">>, <<"m","a","i","l","s","e","r","v","i","c","e",".","i","o">>, <<"c","o","m","p","a","n","y",".","c","o","m">>,
    <<"x",".","c">>, <<"a","c","m","e">>, <<"m","y","-","e","m","a","i","l",".","c","o","m">>, <<"i","m","g",".","j","p","e","g">>, <<"m","y","w","i","x","s","i","t","e",".","o","r","g">>, <<"a",".","b","1">>}

EmailInputs ==
    {l \o <<"@">> \o d : l \in LocalParts, d \in DomainParts}
    \cup {<<"u","s","e","r","@","2","x",".","p","n","g">>, <<"b","r","o","k","e","n","@","@","x",".","c","o","m">>, <<"j","o","e"," ","s","m","i","t","h","@","a","c","m","e",".","c","o">>, <<"a","c","m","e",".","c","o">>,
          <<"h","r","@","a","c","m","e",".","c","o">>, <<"s","u","e","@","a","c","m","e",".","c","o","m">>, <<"j","o","e","@","a","c","m","e",".","c","o","m">>}

AppIdle ==
    /\ results_ready = FALSE
    /\ ss_all_results = EmptyMap
    /\ ss_unique_emails = {}
    /\ ss_total_pages = 0
    /\ ss_failed_urls = <<>>
    /\ pc = "idle"
    /\ websites = <<>>
    /\ crawl_depth = 2
    /\ max_pages = 50
    /\ batch_start = 0
    /\ all_results = EmptyMap
    /\ unique_emails = {}
    /\ total_pages = 0
    /\ failed_urls = <<>>
    /\ completed = 0
    /\ fut = <<>>
    /\ crawl = <<>>
    /\ result = <<>>
    /\ fetched = <<>>
    /\ seed_ok = <<>>

InitGarbage ==
    /\ AppIdle
    /\ email \in EmailInputs
    /\ verdict = "none"
    /\ html = <<>>
    /\ extracted = <<>>

Classify ==
    /\ verdict = "none"
    /\ verdict' = IF looks_like_garbage(email) THEN "garbage" ELSE "ok"
    /\ UNCHANGED <<appVars, html, extracted, email>>

NextGarbage == Classify

SpecGarbage == InitGarbage /\ [][NextGarbage]_vars

-----------------------------------------------------------------------------
(* One call of extract_emails_from_html, on a page of 1..MaxNodes nodes *)

SpecExample == <<
    Anchor(<<"m","a","i","l","t","o",":","j","o","e","@","a","c","m","e",".","c","o","m","?","s","u","b","j","e","c","t","=","h","i">>, <<"C","o","n","t","a","c","t">>),
    Para(<<"R","e","a","c","h"," ","s","u","e","@","a","c","m","e",".","c","o","m">>) >>

NodePool == {
    Anchor(<<"m","a","i","l","t","o",":","j","o","e","@","a","c","m","e",".","c","o","m","?","s","u","b","j","e","c","t","=","h","i">>, <<"C","o","n","t","a","c","t">>),
    Anchor(<<"m","a","i","l","t","o",":","A","n","n","@","A","c","m","e",".","c","o","m">>, <<"A","n","n">>),
    Anchor(<<"M","A","I","L","T","O",":","b","o","b","@","a","c","m","e",".","c","o","m">>, <<"B","o","b">>),
    Anchor(<<"/","p","1">>, <<"A","b","o","u","t">>),
    Para(<<"R","e","a","c","h"," ","s","u","e","@","a","c","m","e",".","c","o","m">>),
    Para(<<"M","a","i","l"," ","s","u","e","@","a","c","m","e",".","c","o","m"," ","t","o","d","a","y">>),
    [tag |-> "text", text |-> <<"j","a","n","e",".","d","o","e","@","a","c","m","e",".","c","o","\n">>],
    [tag |-> "form", action |-> <<"/","s","e","n","d","?","t","o","=","k","i","m","@","a","c","m","e",".","c","o","m">>],
    [tag |-> "input", value |-> <<"l","e","e","@","a","c","m","e",".","c","o","m">>, placeholder |-> <<"y","o","u","@","s","i","t","e",".","o","r","g">>],
    [tag |-> "meta", content |-> <<"m","a","x","@","a","c","m","e",".","c","o","m">>],
    [tag |-> "script", text |-> <<"v","a","r"," ","e"," ","="," ","z","e","d","@","a","c","m","e",".","c","o","m">>],
    [tag |-> "comment", text |-> <<"o","l","d","@","a","c","m","e",".","c","o","m">>] }

\* the parser never hands out two text nodes in a row
Docs ==
    {d \in UNION {[1..n -> NodePool] : n \in 1..MaxNodes} :
        \A i \in 1..(Len(d) - 1) : ~(d[i].tag = "text" /\ d[i + 1].tag = "text")}

InitExtract ==
    /\ AppIdle
    /\ html \in Docs
    /\ extracted = <<>>
    /\ email = <<>>
    /\ verdict = "none"

Extract ==
    /\ extracted = <<>>
    /\ extracted' = <<extract_emails_from_html(html)>>
    /\ UNCHANGED <<appVars, html, email, verdict>>

NextExtract == Extract

SpecExtract == InitExtract /\ [][NextExtract]_vars

-----------------------------------------------------------------------------
(* Properties *)

\* the most sites a run of the model crawls
MaxSites == Max({Len(ParseUrls(u)) : u \in UrlInputs})

\* the URL with its fragment stripped, as the crawler normalizes links
Canonical(url) == geturl([urlparse(url) EXCEPT !.fragment = <<>>])

\* the seed of task t appears once in websites
OnlyTaskOf(t) == \A s \in 1..Len(websites) : websites[s] = websites[t] => s = t

C1_Budget ==
    /\ \A t \in DOMAIN fut :
          /\ crawl[t].pages <= max_pages
          /\ Len(fetched[t]) <= max_pages
          /\ fut[t] = "running" => Len(fetched[t]) = crawl[t].pages
          /\ result[t].pages_crawled <= max_pages
    /\ \A u \in DOMAIN all_results : all_results[u].pages <= max_pages
    /\ \A u \in DOMAIN ss_all_results : ss_all_results[u].pages <= max_pages

\* C1: every crawl_site call ends (it returns, or a fault ends it), it fetches at
\* most max_pages pages whatever the links and the failed fetches are, and the
\* pages_crawled it reports and the report stores is at most max_pages.
C1_Terminates ==
    /\ []C1_Budget
    /\ \A t \in 1..MaxSites :
          (t \in DOMAIN fut /\ fut[t] = "running")
              ~> (t \in DOMAIN fut /\ fut[t] \in {"returned", "raised"})

\* the budget ends a crawl of a site with a link cycle while pages are still queued
C1_Witness ==
    \E t \in DOMAIN fut :
        /\ fut[t] = "running"
        /\ max_pages >= 2
        /\ crawl[t].pages = max_pages
        /\ crawl[t].to_visit # <<>>
        /\ result[t].error_message # NoMessage

OnSite(url, base_domain) ==
    /\ urlparse(url).scheme \in {<<"h","t","t","p">>, <<"h","t","t","p","s">>}
    /\ urlparse(url).netloc = base_domain

\* C2: every URL a crawl fetches after its seed, every URL it has queued and every
\* URL it has marked seen besides the seed has scheme http or https and the
\* seed's host.
C2_SameHost ==
    \A t \in DOMAIN fut :
        /\ \A i \in 2..Len(fetched[t]) :
              OnSite(fetched[t][i][1], urlparse(websites[t]).netloc)
        /\ \A i \in 1..Len(crawl[t].to_visit) :
              OnSite(crawl[t].to_visit[i][1], urlparse(websites[t]).netloc)
        /\ \A u \in crawl[t].seen \ {websites[t]} :
              OnSite(u, urlparse(websites[t]).netloc)

\* the root of a.co, which links to b.io and to an ftp: URL, was parsed for
\* links, and the crawl went on to a second page
C2_Witness ==
    \E t \in DOMAIN fut :
        /\ websites[t] = <<"h","t","t","p","s",":","/","/","a",".","c","o","/">>
        /\ seed_ok[t] = "ok"
        /\ crawl_depth >= 1
        /\ Len(fetched[t]) >= 2
        /\ Cardinality(crawl[t].seen) >= 3

\* C3: at completion the unique emails stored are the union of the clean lists
\* of the site results stored.
C3_DedupInvariant ==
    results_ready =>
        ss_unique_emails =
            UNION {Range(ss_all_results[u].clean) : u \in DOMAIN ss_all_results}

\* C4: at completion a site whose seed could not be fetched, or has no host, has
\* status error and is listed in failed_urls; with three seeds of which one
\* alone is unreachable, one result is an error and two are not.
C4_UnreachableIsError ==
    results_ready =>
        /\ \A t \in 1..Len(websites) :
              (OnlyTaskOf(t) /\ (seed_ok[t] = "fail" \/ urlparse(websites[t]).netloc = <<>>))
                  => /\ ss_all_results[websites[t]].status = "error"
                     /\ \E i \in 1..Len(ss_failed_urls) : ss_failed_urls[i][1] = websites[t]
        /\ (/\ Len(websites) = 3
            /\ \A t \in 1..3 : OnlyTaskOf(t)
            /\ Cardinality({t \in 1..3 : seed_ok[t] = "fail"}) = 1
            /\ Cardinality({t \in 1..3 : seed_ok[t] = "ok"}) = 2
            /\ \A u \in DOMAIN ss_all_results : ss_all_results[u].error.msg # "Fault")
              => /\ Cardinality({u \in DOMAIN ss_all_results :
                                    ss_all_results[u].status = "error"}) = 1
                 /\ Cardinality({u \in DOMAIN ss_all_results :
                                    ss_all_results[u].status \in {"success", "no_emails"}}) = 2

\* C5: at completion a site whose seed was fetched (and whose crawl met no fault)
\* has status success exactly if its clean list is not empty, and no_emails
\* exactly if it is empty.
C5_StatusMatchesClean ==
    results_ready =>
        \A t \in 1..Len(websites) :
            (/\ OnlyTaskOf(t)
             /\ seed_ok[t] = "ok"
             /\ ss_all_results[websites[t]].error.msg # "Fault")
                => /\ ss_all_results[websites[t]].status = "success"
                          <=> ss_all_results[websites[t]].clean # <<>>
                   /\ ss_all_results[websites[t]].status = "no_emails"
                          <=> ss_all_results[websites[t]].clean = <<>>

C6_AllReported ==
    results_ready =>
        /\ completed = Len(websites)
        /\ \A i \in 1..Len(websites) : websites[i] \in DOMAIN ss_all_results

\* what the merge of one finished call does
C6_MergeStep ==
    \A t \in DOMAIN fut :
        (fut[t] \in {"returned", "raised"} /\ t \in DOMAIN fut' /\ fut'[t] = "merged") =>
            /\ websites[t] \in DOMAIN all_results'
            /\ fut[t] = "raised" =>
                  /\ all_results'[websites[t]].status = "error"
                  /\ all_results'[websites[t]].raw = <<>>
                  /\ all_results'[websites[t]].clean = <<>>
                  /\ unique_emails' = unique_emails
                  /\ \E i \in 1..Len(failed_urls') : failed_urls'[i][1] = websites[t]
            /\ fut[t] = "returned" =>
                  /\ all_results'[websites[t]].status = result[t].status
                  /\ Range(all_results'[websites[t]].raw) = result[t].emails
                  /\ Range(all_results'[websites[t]].clean) \subseteq result[t].emails
                  /\ unique_emails' = unique_emails \cup Range(all_results'[websites[t]].clean)
            /\ \A u \in DOMAIN all_results \ {websites[t]} :
                  u \in DOMAIN all_results' /\ all_results'[u] = all_results[u]
            /\ \A s \in DOMAIN fut \ {t} :
                  fut'[s] = fut[s] /\ result'[s] = result[s] /\ crawl'[s] = crawl[s]

\* C6: a run that has started reaches completion; the report then has an entry
\* for every seed; merging a call that raised stores an error entry with empty
\* raw and clean lists and adds no email; and the merge of any call leaves the
\* entries of the other sites, and the other calls, as they were.
C6_RunCompletes ==
    /\ []C6_AllReported
    /\ [][C6_MergeStep]_vars
    /\ (pc # "idle") ~> results_ready

\* a completed run in which one call raised and another site has clean emails
C6_Witness ==
    /\ results_ready
    /\ \E u, v \in DOMAIN ss_all_results :
          /\ u # v
          /\ ss_all_results[u].error.msg = "Fault"
          /\ ss_all_results[u].status = "error"
          /\ ss_all_results[v].clean # <<>>

\* C7: within one crawl no two fetches are of the same URL, fragments aside.
C7_NoRefetch ==
    \A t \in DOMAIN fut :
        \A i, j \in 1..Len(fetched[t]) :
            i < j => Canonical(fetched[t][i][1]) # Canonical(fetched[t][j][1])

\* the same-site links of the page at url, normalized
SiteLinks(url, base_domain) ==
    EnqueueLinks(Hrefs(Web(url)), url, 0, base_domain, [seen |-> {}, to_visit |-> <<>>]).seen

\* the URLs within k same-site links of the URLs of set
RECURSIVE Within(_, _, _)
Within(set, base_domain, k) ==
    IF k = 0 THEN set
    ELSE Within(set \cup UNION {SiteLinks(u, base_domain) : u \in set}, base_domain, k - 1)

\* C8: every queued entry has a depth in 0..crawl_depth; a page fetched at
\* depth k is within k same-host links of the seed, and k <= crawl_depth; with
\* crawl_depth = 0 nothing is queued and only the seed is fetched.
C8_DepthBound ==
    \A t \in DOMAIN fut :
        /\ \A i \in 1..Len(crawl[t].to_visit) :
              /\ 0 <= crawl[t].to_visit[i][2]
              /\ crawl[t].to_visit[i][2] <= crawl_depth
        /\ \A i \in 1..Len(fetched[t]) :
              /\ fetched[t][i][2] <= crawl_depth
              /\ fetched[t][i][1] \in
                     Within({websites[t]}, urlparse(websites[t]).netloc, fetched[t][i][2])
        /\ crawl_depth = 0 =>
              /\ \A i \in 1..Len(fetched[t]) : fetched[t][i] = <<websites[t], 0>>
              /\ fut[t] = "running" => crawl[t].to_visit \in {<<>>, << <<websites[t], 0>> >>}

\* with crawl_depth = 0 the seed page, which has links, was fetched, and the
\* crawl has nothing left to fetch although its budget is not used up
C8_Witness ==
    \E t \in DOMAIN fut :
        /\ fut[t] = "running"
        /\ crawl_depth = 0
        /\ seed_ok[t] = "ok"
        /\ Hrefs(Web(websites[t])) # <<>>
        /\ crawl[t].to_visit = <<>>
        /\ crawl[t].pages < max_pages

\* the words of a text: its maximal runs of characters that are not whitespace
WordsOf(s) ==
    {SubSeq(s, p[1], p[2]) : p \in
        {q \in (1..Len(s)) \X (1..Len(s)) :
            /\ q[1] <= q[2]
            /\ \A k \in q[1]..q[2] : s[k] \notin Whitespace
            /\ q[1] = 1 \/ s[q[1] - 1] \in Whitespace
            /\ q[2] = Len(s) \/ s[q[2] + 1] \in Whitespace}}

\* the addresses in the text a reader of the page sees
VisibleAddresses(doc) ==
    {lower(w) : w \in {x \in UNION {WordsOf(doc[i].text) :
                                       i \in {j \in 1..Len(doc) : doc[j].tag \in {"a", "p", "text"}}} :
                          EMAIL_REGEX_fullmatch(x)}}

\* the addresses the mailto: links of the page point to
MailtoTargets(doc) ==
    {lower(strip(SplitOff(SubSeq(doc[i].href, 8, Len(doc[i].href)), <<"?">>)[1])) :
        i \in {j \in FindAll(doc, "a") : IsMailto(doc[j])}} \ {<<>>}

\* C9: the extracted set holds the target of every mailto: link and every
\* address in the visible text, wherever in its text node the address stands;
\* the page of the spec's example yields joe@acme.com and sue@acme.com alone.
C9_ExtractionComplete ==
    extracted # <<>> =>
        /\ MailtoTargets(html) \subseteq extracted[1]
        /\ VisibleAddresses(html) \subseteq extracted[1]
        /\ html = SpecExample => extracted[1] = {<<"j","o","e","@","a","c","m","e",".","c","o","m">>, <<"s","u","e","@","a","c","m","e",".","c","o","m">>}

LocalOf(e) == SplitOff(e, <<"@">>)[1]

DomainOf(e) == SplitOff(e, <<"@">>)[2]

\* the four predicates of the classifier, each on the whole address
SuffixHit(e) ==
    \E ext \in SKIP_EXTENSIONS :
        endswith(DomainOf(e), ext) \/ endswith(DomainOf(e), lstrip_dot(ext))

HexHit(e) ==
    Len(LocalOf(e)) >= 16 /\ Range(LocalOf(e)) \subseteq HexDigits

NoiseHit(e) == \E sub \in EXCLUDED_DOMAINS_SUBSTR : contains(DomainOf(e), sub)

KeywordHit(e) == \E kw \in EXCLUDED_KEYWORDS : contains(e, kw)

\* C10: the six verdicts of the spec's examples; and an address is accepted
\* exactly if it matches the anchored pattern and none of the four predicates
\* holds of it.
C10_Verdicts ==
    verdict # "none" =>
        /\ email \in {<<"u","s","e","r","@","2","x",".","p","n","g">>, <<"a","1","b","2","c","3","d","4","e","5","f","6","a","7","b","8","@","m","a","i","l","s","e","r","v","i","c","e",".","i","o">>,
                      <<"n","o","r","e","p","l","y","@","c","o","m","p","a","n","y",".","c","o","m">>, <<"b","r","o","k","e","n","@","@","x",".","c","o","m">>,
                      <<"p","e","r","s","o","n","@","s","e","n","t","r","y","d","a","s","h",".","i","o">>} => verdict = "garbage"
        /\ email = <<"j","a","n","e",".","d","o","e","@","a","c","m","e",".","c","o">> => verdict = "ok"
        /\ verdict = "ok" <=>
              /\ EMAIL_REGEX_fullmatch(email)
              /\ ~SuffixHit(email)
              /\ ~HexHit(email)
              /\ ~NoiseHit(email)
              /\ ~KeywordHit(email)

\* the classifier has answered for each of the spec's six examples: this one
\* is the address that only the keyword test rejects
C10_Witness ==
    /\ verdict = "garbage"
    /\ email = <<"n","o","r","e","p","l","y","@","c","o","m","p","a","n","y",".","c","o","m">>
    /\ EMAIL_REGEX_fullmatch(email)
    /\ ~SuffixHit(email) /\ ~HexHit(email) /\ ~NoiseHit(email)

\* the calls that are done and wait for their turn of the as_completed loop
Done == {t \in DOMAIN fut : fut[t] \in {"returned", "raised"}}

\* all_results after the merge of call t into the map r
MergedResults(r, t) ==
    IF fut[t] = "returned" THEN SetItem(r, websites[t], ResultEntry(result[t]))
    ELSE SetItem(r, websites[t], FaultEntry)

\* unique_emails after the merge of call t into the set u
MergedEmails(u, t) ==
    IF fut[t] = "returned" THEN u \cup Range(ResultEntry(result[t]).clean) ELSE u

DistinctSeeds == \A t \in 1..Len(websites) : OnlyTaskOf(t)

\* merging two finished calls in either order gives the same map and the same
\* set, and the set is the union of the clean lists of the map
C11_OrderFree ==
    DistinctSeeds =>
        /\ \A s, t \in Done :
              s # t =>
                 /\ MergedResults(MergedResults(all_results, s), t)
                        = MergedResults(MergedResults(all_results, t), s)
                 /\ MergedEmails(MergedEmails(unique_emails, s), t)
                        = MergedEmails(MergedEmails(unique_emails, t), s)
        /\ unique_emails = UNION {Range(all_results[u].clean) : u \in DOMAIN all_results}

\* a step of the crawl of site t: it leaves the other crawls, the handler's
\* locals and the session state alone
C11_CrawlStep ==
    \A t \in DOMAIN fut :
        (/\ fut[t] \in {"pending", "running"}
         /\ <<fut[t], crawl[t], result[t]>>' # <<fut[t], crawl[t], result[t]>>)
            => /\ \A s \in DOMAIN fut \ {t} :
                     <<fut[s], crawl[s], result[s], fetched[s], seed_ok[s]>>'
                         = <<fut[s], crawl[s], result[s], fetched[s], seed_ok[s]>>
               /\ UNCHANGED <<all_results, unique_emails, total_pages, failed_urls, completed,
                              pc, batch_start, websites, results_ready, ss_all_results,
                              ss_unique_emails, ss_total_pages, ss_failed_urls>>

\* the locals of the merge change only in a turn of the as_completed loop, which
\* merges one finished call, and the turn stores what MergedResults and
\* MergedEmails say
C11_MergeTurn ==
    (pc = "collect" /\ <<all_results, unique_emails, total_pages, failed_urls, completed>>'
                          # <<all_results, unique_emails, total_pages, failed_urls, completed>>)
        => \E t \in Done :
              /\ fut'[t] = "merged"
              /\ \A s \in DOMAIN fut \ {t} : fut'[s] = fut[s]
              /\ all_results' = MergedResults(all_results, t)
              /\ unique_emails' = MergedEmails(unique_emails, t)
              /\ completed' = completed + 1
              /\ UNCHANGED <<crawl, fetched, seed_ok>>

\* C11: the crawls of a batch run interleaved, but a step of one crawl touches no
\* other crawl's frontier, visited set or emails and none of the merged results;
\* the results are merged one finished call at a time; and for distinct seeds
\* the merge of two finished calls gives the same result map and the same
\* unique email set in either order.
C11_MergeOrderFree ==
    /\ []C11_OrderFree
    /\ [][C11_CrawlStep /\ C11_MergeTurn]_vars

\* two crawls of different sites have both finished with different emails, and
\* neither is merged yet
C11_Witness ==
    /\ DistinctSeeds
    /\ \E s, t \in Done :
          /\ websites[s] # websites[t]
          /\ fut[s] = "returned" /\ fut[t] = "returned"
          /\ result[s].emails # {} /\ result[t].emails # {}
          /\ result[s].emails # result[t].emails
          /\ \E r \in DOMAIN fut : fut[r] = "running"

\* the entries of crawl t in the order they were enqueued: those fetched, then
\* those still queued
Discovered(t) == fetched[t] \o crawl[t].to_visit

IsPrefix(a, b) == Len(a) <= Len(b) /\ SubSeq(b, 1, Len(a)) = a

\* the depths along the discovery order never go down: the pages fetched have
\* non-decreasing depths, and every page still queued is at least as deep as
\* every page fetched
C12_DepthOrder ==
    \A t \in DOMAIN fut :
        fut[t] = "running" =>
            \A i, j \in 1..Len(Discovered(t)) :
                i < j => Discovered(t)[i][2] <= Discovered(t)[j][2]

\* an iteration of the loop fetches the entry enqueued first among those queued,
\* and enqueues behind all of them
C12_FifoStep ==
    \A t \in DOMAIN fut :
        (/\ fut[t] = "running"
         /\ t \in DOMAIN fut'
         /\ fut'[t] = "running"
         /\ crawl'[t] # crawl[t])
            => /\ fetched'[t] = Append(fetched[t], Head(crawl[t].to_visit))
               /\ IsPrefix(Tail(crawl[t].to_visit), crawl'[t].to_visit)
               /\ IsPrefix(Discovered(t), Discovered(t)')

\* C12: a crawl fetches its pages in the order they were enqueued: each iteration
\* fetches the head of the queue and enqueues at its end, so the depths of the
\* pages fetched never decrease, and when the budget ends the crawl the pages
\* left unfetched are the last ones enqueued, none shallower than a fetched one.
C12_FifoOrder ==
    /\ []C12_DepthOrder
    /\ [][C12_FifoStep]_vars

\* the budget has ended a crawl that fetched pages of depth 0 and 1 and leaves a
\* page of depth 2 in the queue
C12_Witness ==
    \E t \in DOMAIN fut :
        /\ fut[t] = "running"
        /\ crawl[t].pages = max_pages
        /\ Len(fetched[t]) >= 2
        /\ fetched[t][Len(fetched[t])][2] = 1
        /\ \E i \in 1..Len(crawl[t].to_visit) : crawl[t].to_visit[i][2] = 2

====
